---- MODULE Spec2Model ----
(***************************************************************************)
(* Tuner Lab (src/src/App.tsx): the tuning-mathematics engine.             *)
(*                                                                         *)
(* Number representation.  The program computes with IEEE doubles.  Here a *)
(* cents value is an integer number of "ticks", one tick = 1/10000 cent,   *)
(* so that the millicent cache key round(cents*1000) is a real rounding    *)
(* (ten ticks per key).  A ratio that the program builds from integers     *)
(* (3^b / 2^a, a Just fraction) is an exact rational <<n, d>>; a ratio     *)
(* obtained through fromCents is a fixed-point number in millionths.       *)
(* A string is a sequence of one-character strings.                        *)
(***************************************************************************)
EXTENDS Integers, Sequences, FiniteSets, TLC

VARIABLES
  _justCache,   \* App.tsx:183  Map key -> {name, frac, cents}
  _pythCache,   \* App.tsx:102  Map key -> {cents, ratio, fraction}
  _w3Cache,     \* App.tsx:151  Map key -> {cents, ratio}
  ret,          \* the last operation: its name, arguments and return value
  calls,        \* number of operations performed so far
  first,        \* history: <<matcher, key>> -> value returned by the first call
  rules         \* history: rounding rules consistent with every equalTempNearest call so far

vars == <<_justCache, _pythCache, _w3Cache, ret, calls, first, rules>>

------------------------------------------------------------------------------
(* Bounds of the model *)

\* number of matcher calls in one run
MaxCalls == 2
\* signedDelta inputs: multiples of 10 cents in -10*DeltaMax .. 10*DeltaMax cents
DeltaMax == 125
\* equalTempNearest inputs: multiples of 50 cents in -50*EqMax .. 50*EqMax cents
EqMax == 26
\* number of renders of a component (App, Comparador) in one run
MaxRenders == 1
\* the largest partial count entered
MaxCount == 16
\* parseNoteOrHz inputs: octaves -1 .. MaxOctave
MaxOctave == 9
\* folded-distance inputs: targets on multiples of 50 cents in -50*FoldMax .. 50*FoldMax
FoldMax == 30

------------------------------------------------------------------------------
(* Units and JavaScript arithmetic *)

\* c cents, in ticks
Cents(c) == c * 10000

Abs(x) == IF x < 0 THEN -x ELSE x

\* JavaScript's % : the remainder takes the sign of the dividend
JsRem(a, m) == IF a >= 0 THEN a % m ELSE -((-a) % m)

\* Math.round on x = num/den (den > 0): floor(x + 1/2), halves go up
MathRound(num, den) == (2 * num + den) \div (2 * den)

\* Math.round(centsTarget*1000): the millicent cache key (ten ticks per millicent)
Key(centsTarget) == MathRound(centsTarget, 10)

\* b^e for e >= 0
RECURSIVE IPow(_, _)
IPow(b, e) == IF e = 0 THEN 1 ELSE b * IPow(b, e - 1)

\* Math.pow(base, e) for an integer exponent, as the exact rational <<n, d>>
Pow(base, e) == IF e >= 0 THEN <<IPow(base, e), 1>> ELSE <<1, IPow(base, -e)>>

RECURSIVE Gcd(_, _)
Gcd(a, b) == IF b = 0 THEN a ELSE Gcd(b, a % b)

\* x / y for rationals, in lowest terms
RatDiv(x, y) ==
  LET n == x[1] * y[2]
      d == x[2] * y[1]
      g == Gcd(n, d)
  IN <<n \div g, d \div g>>

\* floor(log2(n/d)) for a rational n/d > 0: the largest a with 2^a <= n/d
RECURSIVE FloorLog2Up(_, _, _)
FloorLog2Up(n, d, a) == IF 2 * IPow(2, a) * d <= n THEN FloorLog2Up(n, d, a + 1) ELSE a
RECURSIVE FloorLog2Down(_, _, _)
FloorLog2Down(n, d, a) == IF IPow(2, a) * n < d THEN FloorLog2Down(n, d, a + 1) ELSE -a
FloorLog2(r) == IF r[1] >= r[2] THEN FloorLog2Up(r[1], r[2], 0) ELSE FloorLog2Down(r[1], r[2], 0)

------------------------------------------------------------------------------
(* Utilidades generales *)

\* 1200*log2(p) in ticks for the primes of the ratios the engine meets
LogPrime == (2 :> 12000000) @@ (3 :> 19019550) @@ (5 :> 27863137) @@ (7 :> 33688259)
              @@ (11 :> 41513179) @@ (13 :> 44405277) @@ (17 :> 49049554)

\* the exponent of the prime p in n >= 1
RECURSIVE Valuation(_, _)
Valuation(n, p) == IF n % p # 0 THEN 0 ELSE 1 + Valuation(n \div p, p)

RECURSIVE SumLog(_, _)
SumLog(r, ps) ==
  IF ps = {} THEN 0
  ELSE LET p == CHOOSE q \in ps : TRUE
       IN (Valuation(r[1], p) - Valuation(r[2], p)) * LogPrime[p] + SumLog(r, ps \ {p})

\* toCents(ratio) = 1200 * Math.log(ratio) / LOG2, in ticks, for a rational
\* ratio <<n, d>>: the logarithm of a product is the sum over its prime factors
toCents(ratio) == SumLog(ratio, DOMAIN LogPrime)

\* 2^(c/1200) in millionths for 0 <= c < 1200 cents, on the cents values the
\* engine applies fromCents to (the semitone grid, the Werckmeister positions)
fromCentsTable ==
  (0 :> 1000000) @@
  (902250 :> 1053498) @@
  (1000000 :> 1059463) @@
  (1921800 :> 1117403) @@
  (2000000 :> 1122462) @@
  (2941350 :> 1185185) @@
  (3000000 :> 1189207) @@
  (3843600 :> 1248590) @@
  (4000000 :> 1259921) @@
  (4980450 :> 1333333) @@
  (5000000 :> 1334840) @@
  (5882700 :> 1404664) @@
  (6000000 :> 1414214) @@
  (6960900 :> 1494927) @@
  (7000000 :> 1498307) @@
  (7921800 :> 1580247) @@
  (8000000 :> 1587401) @@
  (8882700 :> 1670436) @@
  (9000000 :> 1681793) @@
  (9960900 :> 1777778) @@
  (10000000 :> 1781797) @@
  (10863150 :> 1872885) @@
  (11000000 :> 1887749)

\* fromCents(cents) = Math.pow(2, cents/1200) = 2^octave * 2^(rest/1200)
fromCents(cents) ==
  LET octave == cents \div Cents(1200)
      m == fromCentsTable[cents % Cents(1200)]
  IN IF octave >= 0 THEN m * IPow(2, octave)
     ELSE (m + IPow(2, -octave - 1)) \div IPow(2, -octave)

\* the same function without the "+ 1200) % 1200" that makes the remainder positive
signedDeltaOneRem(refCents, targetCents) ==
  JsRem((targetCents - refCents) + Cents(600), Cents(1200)) - Cents(600)

\* the circular difference taken in (-600, 600]: the half turn mapped to +600
signedDeltaUpperHalf(refCents, targetCents) ==
  LET d == targetCents - refCents
      r == JsRem(JsRem(d + Cents(600), Cents(1200)) + Cents(1200), Cents(1200)) - Cents(600)
  IN IF r = -Cents(600) THEN Cents(600) ELSE r

signedDelta(refCents, targetCents) ==
  LET d == targetCents - refCents
  IN JsRem(JsRem(d + Cents(600), Cents(1200)) + Cents(1200), Cents(1200)) - Cents(600)

gcdInt(a, b) ==
  LET g == Gcd(Abs(a), Abs(b))
  IN IF g = 0 THEN 1 ELSE g

reduceFraction(numer, denom) ==
  LET g == gcdInt(numer, denom)
  IN <<numer \div g, denom \div g>>

\* the decimal digits of n >= 0, as a string
Digit(k) == <<"0", "1", "2", "3", "4", "5", "6", "7", "8", "9">>[k + 1]
RECURSIVE NumStr(_)
NumStr(n) == IF n < 10 THEN <<Digit(n)>> ELSE NumStr(n \div 10) \o <<Digit(n % 10)>>

formatRatio(numer, denom) ==
  IF denom = 1 THEN NumStr(numer) \o <<"/", "1">>
  ELSE NumStr(numer) \o <<"/">> \o NumStr(denom)

\* String.prototype.split(sep) for a one-character separator
RECURSIVE split(_, _)
split(s, sep) ==
  IF \A k \in 1..Len(s) : s[k] # sep THEN <<s>>
  ELSE LET k == CHOOSE i \in 1..Len(s) : s[i] = sep /\ \A j \in 1..(i - 1) : s[j] # sep
       IN <<SubSeq(s, 1, k - 1)>> \o split(SubSeq(s, k + 1, Len(s)), sep)

IsDigit(c) == c \in {"0", "1", "2", "3", "4", "5", "6", "7", "8", "9"}

DigitValue(c) == CHOOSE k \in 0..9 : Digit(k) = c

\* the value of a run of decimal digits
RECURSIVE DigitsValue(_)
DigitsValue(s) ==
  IF Len(s) = 0 THEN 0 ELSE 10 * DigitsValue(SubSeq(s, 1, Len(s) - 1)) + DigitValue(s[Len(s)])

\* the longest prefix of s made of digits
RECURSIVE DigitPrefix(_)
DigitPrefix(s) ==
  IF Len(s) = 0 \/ ~IsDigit(s[1]) THEN << >> ELSE <<s[1]>> \o DigitPrefix(Tail(s))

\* parseInt(s, 10): an optional sign, then the leading digits; NaN (nan = TRUE) without any
parseInt(s) ==
  LET neg == Len(s) > 0 /\ s[1] = "-"
      body == IF Len(s) > 0 /\ s[1] \in {"-", "+"} THEN Tail(s) ELSE s
      ds == DigitPrefix(body)
  IN IF Len(ds) = 0 THEN [nan |-> TRUE, v |-> 0]
     ELSE [nan |-> FALSE, v |-> IF neg THEN -DigitsValue(ds) ELSE DigitsValue(ds)]

\* s contains sub as a substring
Contains(s, sub) ==
  \E k \in 0..(Len(s) - Len(sub)) : SubSeq(s, k + 1, k + Len(sub)) = sub

------------------------------------------------------------------------------
(* Maps *)

EmptyMap == << >>

MapHas(m, key) == key \in DOMAIN m

MapSet(m, key, value) == [k \in (DOMAIN m) \cup {key} |-> IF k = key THEN value ELSE m[k]]

------------------------------------------------------------------------------
(* Temperamento Igual *)

\* rounding halves away from zero in place of Math.round
equalTempNearestHalfAway(centsJust) ==
  LET n == IF centsJust >= 0 THEN (centsJust + Cents(50)) \div Cents(100)
           ELSE -((Cents(50) - centsJust) \div Cents(100))
  IN [cents |-> n * Cents(100), ratio |-> fromCents(n * Cents(100)), steps |-> n]

equalTempNearest(centsJust) ==
  LET n == MathRound(centsJust, Cents(100))
      cents == n * Cents(100)
      ratio == fromCents(cents)
  IN [cents |-> cents, ratio |-> ratio, steps |-> n]

------------------------------------------------------------------------------
(* Pitagorico (3-limit) (con memo) *)

\* Infinity: above every finite error
Infinity == 2147483647

\* the part of the loop body that does not read the target: the lattice point
\* 3^b / 2^a with a = floor(log2(3^b)), its ratio and its cents in [0, 1200)
pythPoint(b) ==
  LET pow3 == Pow(3, b)
      a == FloorLog2(pow3)
      r == RatDiv(pow3, Pow(2, a))
      c0 == toCents(r)
      c == JsRem(JsRem(c0, Cents(1200)) + Cents(1200), Cents(1200))
  IN [b |-> b, a |-> a, cents |-> c, ratio |-> r]

\* pythPoint over the range of the loop, evaluated once
PythPoints == [b \in -11..11 |-> pythPoint(b)]

\* one pass of the body of the loop over b
pythCandidate(centsTarget, b) ==
  LET p == PythPoints[b]
      err == Abs(signedDelta(centsTarget, p.cents))
  IN [b |-> p.b, a |-> p.a, cents |-> p.cents, ratio |-> p.ratio, err |-> err]

\* for (let b = ...; b <= 11; b++) { ... if (err < best.err) best = ... }
RECURSIVE pythSearch(_, _, _)
pythSearch(centsTarget, b, best) ==
  IF b > 11 THEN best
  ELSE LET cand == pythCandidate(centsTarget, b)
       IN pythSearch(centsTarget, b + 1, IF cand.err < best.err THEN cand ELSE best)

\* the last case with numerator and denominator exchanged
pythFractionSwapped(best) ==
  LET nd == IF best.b >= 0 /\ best.a >= 0 THEN <<IPow(3, best.b), IPow(2, best.a)>>
            ELSE IF best.b >= 0 /\ best.a < 0 THEN <<IPow(3, best.b) * IPow(2, -best.a), 1>>
            ELSE IF best.b < 0 /\ best.a >= 0 THEN <<1, IPow(3, -best.b) * IPow(2, best.a)>>
            ELSE <<IPow(3, -best.b), IPow(2, -best.a)>>
      r == reduceFraction(nd[1], nd[2])
  IN formatRatio(r[1], r[2])

\* Construye fraccion exacta con enteros positivos
pythFraction(best) ==
  LET nd == IF best.b >= 0 /\ best.a >= 0 THEN <<IPow(3, best.b), IPow(2, best.a)>>
            ELSE IF best.b >= 0 /\ best.a < 0 THEN <<IPow(3, best.b) * IPow(2, -best.a), 1>>
            ELSE IF best.b < 0 /\ best.a >= 0 THEN <<1, IPow(3, -best.b) * IPow(2, best.a)>>
            ELSE <<IPow(2, -best.a), IPow(3, -best.b)>>
      r == reduceFraction(nd[1], nd[2])
  IN formatRatio(r[1], r[2])

\* the body of nearestPythagorean after a cache miss
pythCompute(centsTarget) ==
  LET best == pythSearch(centsTarget, -11,
                         [b |-> 0, a |-> 0, cents |-> 0, ratio |-> <<1, 1>>, err |-> Infinity])
  IN [cents |-> best.cents, ratio |-> best.ratio, fraction |-> pythFraction(best)]

\* without the cache lookup: every call computes and stores
nearestPythagoreanOverwrite(cache, centsTarget) ==
  LET res == pythCompute(centsTarget)
  IN [val |-> res, cache |-> MapSet(cache, Key(centsTarget), res)]

\* returns the value and the cache after the call
nearestPythagorean(cache, centsTarget) ==
  LET key == Key(centsTarget)
  IN IF MapHas(cache, key) THEN [val |-> cache[key], cache |-> cache]
     ELSE LET res == pythCompute(centsTarget)
          IN [val |-> res, cache |-> MapSet(cache, key, res)]

------------------------------------------------------------------------------
(* Werckmeister III (con memo) *)

\* for (let i = 0; i < 11; i++) { acc += sizes[i]; ... cents.push(pos) }
RECURSIVE w3Accumulate(_, _, _, _)
w3Accumulate(sizes, i, acc, cents) ==
  IF i >= 11 THEN cents
  ELSE LET acc2 == acc + sizes[i + 1]
           pos0 == JsRem(acc2, Cents(1200))
           pos == IF pos0 < 0 THEN pos0 + Cents(1200) ELSE pos0
       IN w3Accumulate(sizes, i + 1, acc2, Append(cents, pos))

\* the position list returned without its final sort
werckmeisterIIIPositionsUnsorted ==
  LET pureFifth == toCents(<<3, 2>>)
      pythComma == toCents(<<531441, 524288>>)
      quarterComma == pythComma \div 4
      temperedFifth == pureFifth - quarterComma
      sizes == <<temperedFifth, temperedFifth, temperedFifth, temperedFifth,
                 pureFifth, pureFifth, pureFifth, pureFifth,
                 pureFifth, pureFifth, pureFifth, pureFifth>>
      cents == w3Accumulate(sizes, 0, 0, <<0>>)
  IN [k \in 1..Len(cents) |-> JsRem(cents[k] + Cents(1200), Cents(1200))]

werckmeisterIIIPositions ==
  LET pureFifth == toCents(<<3, 2>>)
      pythComma == toCents(<<531441, 524288>>)
      quarterComma == pythComma \div 4
      temperedFifth == pureFifth - quarterComma
      sizes == <<temperedFifth, temperedFifth, temperedFifth, temperedFifth,
                 pureFifth, pureFifth, pureFifth, pureFifth,
                 pureFifth, pureFifth, pureFifth, pureFifth>>
      cents == w3Accumulate(sizes, 0, 0, <<0>>)
      unique == [k \in 1..Len(cents) |-> JsRem(cents[k] + Cents(1200), Cents(1200))]
  IN SortSeq(unique, LAMBDA a, b: a < b)

\* the error of a position taken as the plain absolute difference
w3ErrUnfolded(position, centsTarget) == Abs(position - centsTarget)

\* let err = Math.abs(positions[i] - centsTarget); if (err > 600) err = 1200 - err
w3Err(position, centsTarget) ==
  LET e0 == Abs(position - centsTarget)
  IN IF e0 > Cents(600) THEN Cents(1200) - e0 ELSE e0

\* for (let i = 1; i < positions.length; i++) { ... }
RECURSIVE w3Search(_, _, _, _)
w3Search(centsTarget, positions, i, best) ==
  IF i >= Len(positions) THEN best
  ELSE LET err == w3Err(positions[i + 1], centsTarget)
       IN w3Search(centsTarget, positions, i + 1,
                   IF err < best.err THEN [idx |-> i, cents |-> positions[i + 1], err |-> err]
                   ELSE best)

\* the body of nearestWerckmeister after a cache miss
w3Compute(centsTarget, positions) ==
  LET best == w3Search(centsTarget, positions, 1,
                       [idx |-> 0, cents |-> positions[1],
                        err |-> Abs(positions[1] - centsTarget)])
  IN [cents |-> best.cents, ratio |-> fromCents(best.cents)]

nearestWerckmeister(cache, centsTarget, positions) ==
  LET key == Key(centsTarget)
  IN IF MapHas(cache, key) THEN [val |-> cache[key], cache |-> cache]
     ELSE LET res == w3Compute(centsTarget, positions)
          IN [val |-> res, cache |-> MapSet(cache, key, res)]

------------------------------------------------------------------------------
(* Conjunto Justo comun (y memo) *)

JUST_SET ==
  <<
    [name |-> <<"1", "/", "1", " ", "(", "u", "n", "i", "s", "o", "n", "o", ")">>, frac |-> <<1, 1>>],
    [name |-> <<"1", "6", "/", "1", "5", " ", "(", "2", "m", ")">>, frac |-> <<16, 15>>],
    [name |-> <<"1", "0", "/", "9", " ", "(", "2", "m", ")">>, frac |-> <<10, 9>>],
    [name |-> <<"9", "/", "8", " ", "(", "2", "M", ")">>, frac |-> <<9, 8>>],
    [name |-> <<"6", "/", "5", " ", "(", "3", "m", ")">>, frac |-> <<6, 5>>],
    [name |-> <<"5", "/", "4", " ", "(", "3", "M", ")">>, frac |-> <<5, 4>>],
    [name |-> <<"4", "/", "3", " ", "(", "4", "J", ")">>, frac |-> <<4, 3>>],
    [name |-> <<"4", "5", "/", "3", "2", " ", "(", "T", "T", ")">>, frac |-> <<45, 32>>],
    [name |-> <<"3", "/", "2", " ", "(", "5", "J", ")">>, frac |-> <<3, 2>>],
    [name |-> <<"8", "/", "5", " ", "(", "6", "m", ")">>, frac |-> <<8, 5>>],
    [name |-> <<"5", "/", "3", " ", "(", "6", "M", ")">>, frac |-> <<5, 3>>],
    [name |-> <<"1", "6", "/", "9", " ", "(", "7", "m", ")">>, frac |-> <<16, 9>>],
    [name |-> <<"1", "5", "/", "8", " ", "(", "7", "M", ")">>, frac |-> <<15, 8>>]
  >>

\* the initial best.err of nearestJust, 1e9
JustInitErr == 1000000000

\* for (const j of JUST_SET) { ... if (err < best.err) best = ... }
RECURSIVE justSearch(_, _, _)
justSearch(centsTarget, i, best) ==
  IF i > Len(JUST_SET) THEN best
  ELSE LET j == JUST_SET[i]
           c == toCents(j.frac)
           err == Abs(signedDelta(centsTarget, c))
       IN justSearch(centsTarget, i + 1,
                     IF err < best.err
                     THEN [name |-> j.name, frac |-> j.frac, cents |-> c, err |-> err]
                     ELSE best)

\* the body of nearestJust after a cache miss
justCompute(centsTarget) ==
  LET best == justSearch(centsTarget, 1,
                         [name |-> << >>, frac |-> <<1, 1>>, cents |-> 0, err |-> JustInitErr])
  IN [name |-> best.name, frac |-> best.frac, cents |-> best.cents]

\* the cache stores the first value, but a hit computes afresh from its own target
nearestJustRecompute(cache, centsTarget) ==
  LET key == Key(centsTarget)
      res == justCompute(centsTarget)
  IN IF MapHas(cache, key) THEN [val |-> res, cache |-> cache]
     ELSE [val |-> res, cache |-> MapSet(cache, key, res)]

nearestJust(cache, centsTarget) ==
  LET key == Key(centsTarget)
  IN IF MapHas(cache, key) THEN [val |-> cache[key], cache |-> cache]
     ELSE LET res == justCompute(centsTarget)
          IN [val |-> res, cache |-> MapSet(cache, key, res)]

------------------------------------------------------------------------------
(* Conversion nota <-> frecuencia *)
(* A frequency is held by its logarithm, 1200*log2(Hz) in ticks, so that   *)
(* a4 * 2^(k/12) is a sum and the ratio f / fFund a difference.            *)

\* null / undefined, and a present value
None == << >>
Some(v) == <<v>>

\* 1200*log2(261.625565) in ticks: the literal of the middle C has large prime
\* factors, so its logarithm is given by its value
Log261_625565 == 96376316

\* the logarithm (ticks) of a frequency given in millionths of a Hz
hzLog(micro) == IF micro = 261625565 THEN Log261_625565 ELSE toCents(<<micro, 1000000>>)

NOTE_INDEX ==
  (<<"C">> :> 0) @@
  (<<"C", "#">> :> 1) @@
  (<<"D", "b">> :> 1) @@
  (<<"D">> :> 2) @@
  (<<"D", "#">> :> 3) @@
  (<<"E", "b">> :> 3) @@
  (<<"E">> :> 4) @@
  (<<"F">> :> 5) @@
  (<<"F", "#">> :> 6) @@
  (<<"G", "b">> :> 6) @@
  (<<"G">> :> 7) @@
  (<<"G", "#">> :> 8) @@
  (<<"A", "b">> :> 8) @@
  (<<"A">> :> 9) @@
  (<<"A", "#">> :> 10) @@
  (<<"B", "b">> :> 10) @@
  (<<"B">> :> 11)

IsSpace(c) == c \in {" ", "\t", "\n", "\r"}

RECURSIVE trimLeft(_)
trimLeft(s) == IF Len(s) > 0 /\ IsSpace(s[1]) THEN trimLeft(Tail(s)) ELSE s

RECURSIVE trimRight(_)
trimRight(s) ==
  IF Len(s) > 0 /\ IsSpace(s[Len(s)]) THEN trimRight(SubSeq(s, 1, Len(s) - 1)) ELSE s

trim(s) == trimRight(trimLeft(s))

\* s.replace(",", "."): the first comma only
replaceComma(s) ==
  IF \A k \in 1..Len(s) : s[k] # "," THEN s
  ELSE LET k == CHOOSE i \in 1..Len(s) : s[i] = "," /\ \A j \in 1..(i - 1) : s[j] # ","
       IN [i \in 1..Len(s) |-> IF i = k THEN "." ELSE s[i]]

AllDigits(s) == \A k \in 1..Len(s) : IsDigit(s[k])

\* Number(s), in millionths, on the numerals digits[.digits] with at most six
\* decimals; the empty string is 0; every other string of the inputs is NaN
Number(s) ==
  LET parts == split(s, ".")
  IN IF Len(s) = 0 THEN [nan |-> FALSE, micro |-> 0]
     ELSE IF Len(parts) = 1 /\ AllDigits(parts[1])
       THEN [nan |-> FALSE, micro |-> DigitsValue(parts[1]) * 1000000]
     ELSE IF /\ Len(parts) = 2 /\ AllDigits(parts[1]) /\ AllDigits(parts[2])
             /\ Len(parts[1]) + Len(parts[2]) > 0 /\ Len(parts[2]) <= 6
       THEN [nan |-> FALSE,
             micro |-> DigitsValue(parts[1]) * 1000000
                         + DigitsValue(parts[2]) * IPow(10, 6 - Len(parts[2]))]
     ELSE [nan |-> TRUE, micro |-> 0]

\* the decimal numeral of an integer
IntStr(n) == IF n < 0 THEN <<"-">> \o NumStr(-n) ELSE NumStr(n)

\* the digits of n, padded with zeros on the left to the given width
RECURSIVE PadStr(_, _)
PadStr(n, width) ==
  IF width = 0 THEN << >> ELSE PadStr(n \div 10, width - 1) \o <<Digit(n % 10)>>

\* asNum.toFixed(6) for asNum >= 0 in millionths
toFixed6(micro) == NumStr(micro \div 1000000) \o <<".">> \o PadStr(micro % 1000000, 6)

\* s.match(/^([A-Ga-g])([#b]?)(-?\d+)$/)
noteMatch(s) ==
  LET letters == {"A", "B", "C", "D", "E", "F", "G", "a", "b", "c", "d", "e", "f", "g"}
      isOct(x) == LET ds == IF Len(x) > 0 /\ x[1] = "-" THEN Tail(x) ELSE x
                  IN Len(ds) > 0 /\ AllDigits(ds)
      no == [ok |-> FALSE, L |-> "", acc |-> << >>, octStr |-> << >>]
  IN IF Len(s) < 2 \/ s[1] \notin letters THEN no
     ELSE IF s[2] \in {"#", "b"}
       THEN IF isOct(SubSeq(s, 3, Len(s)))
            THEN [ok |-> TRUE, L |-> s[1], acc |-> <<s[2]>>, octStr |-> SubSeq(s, 3, Len(s))]
            ELSE no
     ELSE IF isOct(Tail(s)) THEN [ok |-> TRUE, L |-> s[1], acc |-> << >>, octStr |-> Tail(s)]
     ELSE no

toUpperCase(c) ==
  IF c = "a" THEN "A" ELSE IF c = "b" THEN "B" ELSE IF c = "c" THEN "C"
  ELSE IF c = "d" THEN "D" ELSE IF c = "e" THEN "E" ELSE IF c = "f" THEN "F"
  ELSE IF c = "g" THEN "G" ELSE c

parseNoteOrHz(input, a4) ==
  LET s == trim(input)
      asNum == Number(replaceComma(s))
      m == noteMatch(s)
      null == [freq |-> None, label |-> << >>, midi |-> None, pc |-> None]
  IN IF ~asNum.nan /\ asNum.micro > 0
       THEN [freq |-> Some(hzLog(asNum.micro)),
             label |-> toFixed6(asNum.micro) \o <<" ", "H", "z">>,
             midi |-> None, pc |-> None]
     ELSE IF ~m.ok THEN null
     ELSE LET letter == toUpperCase(m.L)
              name == <<letter>> \o m.acc
          IN IF name \notin DOMAIN NOTE_INDEX THEN null
             ELSE LET idx == NOTE_INDEX[name]
                      octave == parseInt(m.octStr).v
                      midi == (octave + 1) * 12 + idx
                      freq == hzLog(a4) + (midi - 69) * Cents(100)
                  IN [freq |-> Some(freq),
                      label |-> <<letter>> \o m.acc \o IntStr(octave),
                      midi |-> Some(midi),
                      pc |-> Some(JsRem(JsRem(midi, 12) + 12, 12))]

------------------------------------------------------------------------------
(* Comparador *)
(* A ratio held in a JavaScript number is either the quotient of two       *)
(* integers, kept exact, or a result of fromCents, kept in millionths.     *)

Exact(r) == [exact |-> TRUE, r |-> r, m |-> 0]
Real(m) == [exact |-> FALSE, r |-> <<1, 1>>, m |-> m]

\* 1200*log2 of a fromCents result: the inverse of fromCents
RECURSIVE realLog(_)
realLog(m) ==
  IF m >= 2000000 THEN Cents(1200) + realLog(m \div 2)
  ELSE CHOOSE c \in DOMAIN fromCentsTable : fromCentsTable[c] = m

\* 1200*log2 of a ratio
ratioLog(x) == IF x.exact THEN toCents(x.r) ELSE realLog(x.m)

\* x.toFixed(1) for x >= 0 in ticks
toFixed1(x) ==
  LET tenths == (x + 500) \div 1000
  IN NumStr(tenths \div 10) \o <<".">> \o <<Digit(tenths % 10)>>

\* targets.split(/[\\,\\s]+/).filter(Boolean): the character class of this
\* regular-expression literal holds the backslash, the comma and the letter s
RECURSIVE splitTargets(_, _, _)
splitTargets(text, i, cur) ==
  LET flush == IF Len(cur) = 0 THEN << >> ELSE <<cur>>
  IN IF i > Len(text) THEN flush
     ELSE IF text[i] \in {"\\", ",", "s"} THEN flush \o splitTargets(text, i + 1, << >>)
     ELSE splitTargets(text, i + 1, Append(cur, text[i]))

\* the branches of the projection, each on the value its matcher returned
projEqual(eq, caches) ==
  [sysRatio |-> Real(eq.ratio), sysCents |-> eq.cents,
   sysName |-> IntStr(eq.cents \div Cents(100)) \o <<" ", "s", "t">>,
   sysFrac |-> <<"2", "^", "(", " ">> \o IntStr(eq.cents \div Cents(1)) \o <<"/", "1", "2", "0", "0", " ", ")">>,
   sysFracPair |-> None, caches |-> caches]

projJust(c, caches) ==
  [sysRatio |-> Exact(c.val.frac), sysCents |-> c.val.cents, sysName |-> c.val.name,
   sysFrac |-> NumStr(c.val.frac[1]) \o <<"/">> \o NumStr(c.val.frac[2]),
   sysFracPair |-> Some([n |-> c.val.frac[1], d |-> c.val.frac[2]]),
   caches |-> [caches EXCEPT !.just = c.cache]]

\* mf: q.fraction.split("/"), n and d: parseInt of its two parts
projPythPair(mf, n, d) ==
  IF Len(mf) = 2 /\ ~n.nan /\ ~d.nan THEN Some([n |-> n.v, d |-> d.v]) ELSE None

projPythFrac(mf) == projPythPair(mf, parseInt(mf[1]), parseInt(mf[2]))

projPyth(c, caches) ==
  [sysRatio |-> Exact(c.val.ratio), sysCents |-> c.val.cents,
   sysName |-> <<"3", "-", "l", "i", "m", "i", "t">>,
   sysFrac |-> c.val.fraction,
   sysFracPair |-> projPythFrac(split(c.val.fraction, "/")),
   caches |-> [caches EXCEPT !.pyth = c.cache]]

projW3(c, caches) ==
  [sysRatio |-> Real(c.val.ratio), sysCents |-> c.val.cents,
   sysName |-> <<"W", "e", "r", "c", "k", "m", "e", "i", "s", "t", "e", "r", " ", "I", "I", "I">>,
   sysFrac |-> <<"2", "^", "(", " ">> \o toFixed1(c.val.cents) \o <<"/", "1", "2", "0", "0", " ", ")">>,
   sysFracPair |-> None,
   caches |-> [caches EXCEPT !.w3 = c.cache]]

\* Proyeccion al sistema elegido: the projection and the caches after it
projection(sys, centsEI, caches, w3Positions) ==
  IF sys = "equal" THEN projEqual(equalTempNearest(centsEI), caches)
  ELSE IF sys = "just" THEN projJust(nearestJust(caches.just, centsEI), caches)
  ELSE IF sys = "pyth" THEN projPyth(nearestPythagorean(caches.pyth, centsEI), caches)
  ELSE projW3(nearestWerckmeister(caches.w3, centsEI, w3Positions), caches)

\* the quotient taken the other way round: reference over current
distanceInverted(sysRatio, sysFracPair, refRatio, refFrac) ==
  IF refRatio = None THEN [distFrac |-> None, distCents |-> None]
  ELSE IF sysFracPair # None /\ refFrac # None THEN
    LET num == refFrac[1].n * sysFracPair[1].d
        den == refFrac[1].d * sysFracPair[1].n
        r == reduceFraction(num, den)
        k == FloorLog2(r)
        rDist == RatDiv(r, Pow(2, k))
    IN [distFrac |-> Some(NumStr(r[1]) \o <<"/">> \o NumStr(r[2])),
        distCents |-> Some(toCents(rDist))]
  ELSE
    LET d == ratioLog(refRatio[1]) - ratioLog(sysRatio)
        k == d \div Cents(1200)
        distCents == d - k * Cents(1200)
    IN [distFrac |-> Some(<<"2", "^", "(", " ">> \o toFixed1(distCents) \o <<"/", "1", "2", "0", "0", " ", ")">>),
        distCents |-> Some(distCents)]

\* the distance whose exact fraction is left as the cross-multiplication gives it
distanceUnreduced(sysRatio, sysFracPair, refRatio, refFrac) ==
  IF refRatio = None THEN [distFrac |-> None, distCents |-> None]
  ELSE IF sysFracPair # None /\ refFrac # None THEN
    LET num == sysFracPair[1].n * refFrac[1].d
        den == sysFracPair[1].d * refFrac[1].n
        r == <<num, den>>
        k == FloorLog2(r)
        rDist == RatDiv(r, Pow(2, k))
    IN [distFrac |-> Some(NumStr(r[1]) \o <<"/">> \o NumStr(r[2])),
        distCents |-> Some(toCents(rDist))]
  ELSE
    LET d == ratioLog(sysRatio) - ratioLog(refRatio[1])
        k == d \div Cents(1200)
        distCents == d - k * Cents(1200)
    IN [distFrac |-> Some(<<"2", "^", "(", " ">> \o toFixed1(distCents) \o <<"/", "1", "2", "0", "0", " ", ")">>),
        distCents |-> Some(distCents)]

\* Distancia segun modo: distFrac and distCents of a row
distance(sysRatio, sysFracPair, refRatio, refFrac) ==
  IF refRatio = None THEN [distFrac |-> None, distCents |-> None]
  ELSE IF sysFracPair # None /\ refFrac # None THEN
    LET num == sysFracPair[1].n * refFrac[1].d
        den == sysFracPair[1].d * refFrac[1].n
        r == reduceFraction(num, den)
        k == FloorLog2(r)
        rDist == RatDiv(r, Pow(2, k))
    IN [distFrac |-> Some(NumStr(r[1]) \o <<"/">> \o NumStr(r[2])),
        distCents |-> Some(toCents(rDist))]
  ELSE
    LET d == ratioLog(sysRatio) - ratioLog(refRatio[1])
        k == d \div Cents(1200)
        distCents == d - k * Cents(1200)
    IN [distFrac |-> Some(<<"2", "^", "(", " ">> \o toFixed1(distCents) \o <<"/", "1", "2", "0", "0", " ", ")">>),
        distCents |-> Some(distCents)]

\* the push of a row after which the 'previous' reference stays on the first row
cmpRowKeepFirst(t, st, env, parsed, oct, centsEI, pr, refRatio, refFrac) ==
  LET sysHzBase == env.fFund + ratioLog(pr.sysRatio)
      sysHz == IF env.realOct THEN sysHzBase + oct * Cents(1200) ELSE sysHzBase
      dev == signedDelta(pr.sysCents, centsEI)
      dist == distance(pr.sysRatio, pr.sysFracPair, refRatio, refFrac)
      row == [target |-> IF Len(parsed.label) > 0 THEN parsed.label ELSE t,
              hzTarget |-> parsed.freq[1], centsEI |-> centsEI, ratioRed |-> centsEI,
              sysName |-> pr.sysName, sysFrac |-> pr.sysFrac, sysCents |-> pr.sysCents,
              sysHz |-> sysHz, dev |-> dev,
              distFrac |-> dist.distFrac, distCents |-> dist.distCents]
  IN [out |-> Append(st.out, row),
      firstSysRatio |-> IF st.firstSysRatio = None THEN Some(pr.sysRatio)
                        ELSE st.firstSysRatio,
      firstFrac |-> IF st.firstSysRatio = None THEN pr.sysFracPair ELSE st.firstFrac,
      prevSysRatio |-> IF st.firstSysRatio = None THEN Some(pr.sysRatio)
                       ELSE st.firstSysRatio,
      prevFrac |-> IF st.firstSysRatio = None THEN pr.sysFracPair ELSE st.firstFrac,
      caches |-> pr.caches]

\* the row of a parsed target and the loop state after pushing it
cmpRow(t, st, env, parsed, oct, centsEI, pr, refRatio, refFrac) ==
  LET sysHzBase == env.fFund + ratioLog(pr.sysRatio)
      sysHz == IF env.realOct THEN sysHzBase + oct * Cents(1200) ELSE sysHzBase
      dev == signedDelta(pr.sysCents, centsEI)
      dist == distance(pr.sysRatio, pr.sysFracPair, refRatio, refFrac)
      row == [target |-> IF Len(parsed.label) > 0 THEN parsed.label ELSE t,
              hzTarget |-> parsed.freq[1], centsEI |-> centsEI, ratioRed |-> centsEI,
              sysName |-> pr.sysName, sysFrac |-> pr.sysFrac, sysCents |-> pr.sysCents,
              sysHz |-> sysHz, dev |-> dev,
              distFrac |-> dist.distFrac, distCents |-> dist.distCents]
  IN [out |-> Append(st.out, row),
      firstSysRatio |-> IF st.firstSysRatio = None THEN Some(pr.sysRatio)
                        ELSE st.firstSysRatio,
      firstFrac |-> IF st.firstSysRatio = None THEN pr.sysFracPair ELSE st.firstFrac,
      prevSysRatio |-> Some(pr.sysRatio),
      prevFrac |-> pr.sysFracPair,
      caches |-> pr.caches]

\* one pass of the loop in which a target that fails to parse also clears
\* the reference of the 'previous' mode
cmpStepResetRef(t, st, env) ==
  LET parsed == parseNoteOrHz(t, env.a4)
      ratioAbs == parsed.freq[1] - env.fFund
      oct == ratioAbs \div Cents(1200)
      ratioRed == ratioAbs - oct * Cents(1200)
      centsEI == ratioRed
  IN IF parsed.freq = None THEN [st EXCEPT !.prevSysRatio = None, !.prevFrac = None]
     ELSE cmpRow(t, st, env, parsed, oct, centsEI,
                 projection(env.sys, centsEI, st.caches, env.w3Positions),
                 IF env.distMode = "previous" THEN st.prevSysRatio ELSE st.firstSysRatio,
                 IF env.distMode = "previous" THEN st.prevFrac ELSE st.firstFrac)

\* one pass of the body of for (const t of list): the loop state after it
cmpStep(t, st, env) ==
  LET parsed == parseNoteOrHz(t, env.a4)
      ratioAbs == parsed.freq[1] - env.fFund
      oct == ratioAbs \div Cents(1200)
      ratioRed == ratioAbs - oct * Cents(1200)
      centsEI == ratioRed
  IN IF parsed.freq = None THEN st
     ELSE cmpRow(t, st, env, parsed, oct, centsEI,
                 projection(env.sys, centsEI, st.caches, env.w3Positions),
                 IF env.distMode = "previous" THEN st.prevSysRatio ELSE st.firstSysRatio,
                 IF env.distMode = "previous" THEN st.prevFrac ELSE st.firstFrac)

RECURSIVE cmpLoop(_, _, _, _)
cmpLoop(list, i, st, env) ==
  IF i > Len(list) THEN st
  ELSE \* the loop state after pass i is a value, computed once
       CHOOSE r \in {cmpLoop(list, i + 1, s, env) : s \in {cmpStep(list[i], st, env)}} : TRUE

\* const fFund = parseNoteOrHz(fund, a4).freq ?? 440
fFund(fund, a4) ==
  LET parsedFund == parseNoteOrHz(fund, a4)
  IN IF parsedFund.freq = None THEN hzLog(440000000) ELSE parsedFund.freq[1]

\* the loop state at the end of the Comparador's useMemo for its inputs: the
\* rows (out) and the caches after computing them
Comparador(caches, a4, fund, targets, sys, realOct, distMode) ==
  LET list == splitTargets(targets, 1, << >>)
      env == [a4 |-> a4, fFund |-> fFund(fund, a4), sys |-> sys, realOct |-> realOct,
              distMode |-> distMode, w3Positions |-> werckmeisterIIIPositions]
      st0 == [out |-> << >>, firstSysRatio |-> None, firstFrac |-> None,
              prevSysRatio |-> None, prevFrac |-> None, caches |-> caches]
  IN cmpLoop(list, 1, st0, env)

------------------------------------------------------------------------------
(* App: the harmonic series *)

\* const baseFreq = parsed.freq || 261.625565
baseFreq(input, a4) ==
  LET parsed == parseNoteOrHz(input, a4)
  IN IF parsed.freq = None THEN Log261_625565 ELSE parsed.freq[1]

\* Octava reducida of partial n, with the power of two left as it is
harmonicReducedNoGcd(n) == <<n, IPow(2, FloorLog2(<<n, 1>>))>>

\* Octava reducida: [rn, rd] = reduceFraction(n, 2^floor(log2(n)))
harmonicReduced(n) ==
  LET k == FloorLog2(<<n, 1>>)
      denom == IPow(2, k)
      numer == n
  IN reduceFraction(numer, denom)

\* rows.push({ n, harmonicHz, just, equal, pyth, w3 }) on the values of the
\* three approximators; frequencies are held by their logarithms
harmonicRow(n, base, fr, centsJust, eq, pyth, w3) ==
  [n |-> n,
   harmonicHz |-> base + toCents(<<n, 1>>),
   just |-> [ratio |-> formatRatio(fr[1], fr[2]), cents |-> centsJust, ratioVal |-> fr],
   equal |-> [cents |-> eq.cents, ratioVal |-> Real(eq.ratio),
              freqBase |-> base + ratioLog(Real(eq.ratio)),
              delta |-> signedDelta(centsJust, eq.cents)],
   pyth |-> [cents |-> pyth.cents, ratioVal |-> Exact(pyth.ratio),
             freqBase |-> base + ratioLog(Exact(pyth.ratio)),
             delta |-> signedDelta(centsJust, pyth.cents), fraction |-> pyth.fraction],
   w3 |-> [cents |-> w3.cents, ratioVal |-> Real(w3.ratio),
           freqBase |-> base + ratioLog(Real(w3.ratio)),
           delta |-> signedDelta(centsJust, w3.cents)]]

\* the loop state after the row of partial n is pushed: p and w are the
\* results of the two memoized approximators with the caches after them
harmonicPush(n, base, st, fr, centsJust, eq, p, w) ==
  [rows |-> Append(st.rows, harmonicRow(n, base, fr, centsJust, eq, p.val, w.val)),
   caches |-> [st.caches EXCEPT !.pyth = p.cache, !.w3 = w.cache]]

\* one pass of the body of for (let n = 1; n <= Math.max(1, count); n++)
harmonicStep(n, base, st, w3Positions, fr, centsJust) ==
  harmonicPush(n, base, st, fr, centsJust,
               equalTempNearest(centsJust),
               nearestPythagorean(st.caches.pyth, centsJust),
               nearestWerckmeister(st.caches.w3, centsJust, w3Positions))

RECURSIVE harmonicsLoop(_, _, _, _, _)
harmonicsLoop(base, count, n, st, w3Positions) ==
  IF n > (IF count > 1 THEN count ELSE 1) THEN st
  ELSE \* the loop state after pass n is a value, computed once
       CHOOSE r \in {harmonicsLoop(base, count, n + 1, s, w3Positions) :
                       s \in {harmonicStep(n, base, st, w3Positions, harmonicReduced(n),
                                           toCents(harmonicReduced(n)))}} : TRUE

\* the rows of the harmonics useMemo and the caches after computing them
harmonics(caches, base, count, w3Positions) ==
  harmonicsLoop(base, count, 1, [rows |-> << >>, caches |-> caches], w3Positions)

------------------------------------------------------------------------------
(* Inputs *)

\* the cents of the 23 lattice points of the Pythagorean search
PythLattice == {PythPoints[b].cents : b \in -11..11}

\* targets of nearestJust: table entries, the tie between 16/15 and 10/9, and two
\* targets of one millicent key on either side of the 10/9 | 9/8 midpoint
JustTargets ==
  {toCents(JUST_SET[i].frac) : i \in 1..Len(JUST_SET)}
    \cup {Cents(386), Cents(400), Cents(200), 1470675, 1931566, 1931570, Cents(1195)}

\* targets of nearestPythagorean: the lattice itself, the pure fifth 701.955 and
\* neighbours, and two targets of one key on either side of a midpoint
PythTargets == PythLattice \cup {7019550, 7019545, Cents(700), 6902249, 6902251, Cents(1195)}

\* targets of nearestWerckmeister in [0, 1200)
W3Targets == {0, Cents(50), Cents(700), 6960900, Cents(1150), Cents(1195), 11999999, 451124, 451126}

\* the position lists the program passes (App.tsx:303, App.tsx:582)
PositionLists == {werckmeisterIIIPositions}

DeltaRefs == {Cents(10 * i) : i \in -DeltaMax..DeltaMax}

DeltaTargets == {Cents(10 * i) + o : i \in -DeltaMax..DeltaMax, o \in {-1, 0, 1}}

\* Comparador inputs: fundamentals, target texts, concert pitch (millionths of a Hz)
CmpFunds == {<<"C", "4">>, <<"E", "4">>, <<"z", "z">>}

CmpTargets == {<<"E", "4", ",", "D", "4">>, <<"D", "4", ",", "E", "4">>, <<"D", "#", "4">>, <<"E", "4", " ", "D", "4">>, <<"G", "4", ",", " ", "z", "z", ",", " ", "C", "5", ",", "4", "4", "0">>, <<"E", "4", ",", " ", "D", "4">>}

CmpA4 == {440000000}

CmpSystems == {"just", "equal", "pyth", "w3"}

EqTargets == {Cents(50 * i) + o : i \in -EqMax..EqMax, o \in {-1, 0, 1}} \cup {3863000}

------------------------------------------------------------------------------
(* Rounding rules a target is compared with (history variable rules) *)

RoundHalfAway(t) ==
  IF t >= 0 THEN (t + Cents(50)) \div Cents(100) ELSE -((Cents(50) - t) \div Cents(100))

RoundHalfEven(t) ==
  LET lo == t \div Cents(100)
      rest == t - lo * Cents(100)
  IN IF rest < Cents(50) THEN lo
     ELSE IF rest > Cents(50) THEN lo + 1
     ELSE IF lo % 2 = 0 THEN lo ELSE lo + 1

RuleValue(rule, t) == IF rule = "away" THEN RoundHalfAway(t) ELSE RoundHalfEven(t)

------------------------------------------------------------------------------
(* State machine *)

Init ==
  /\ _justCache = EmptyMap
  /\ _pythCache = EmptyMap
  /\ _w3Cache = EmptyMap
  /\ ret = [op |-> "none"]
  /\ calls = 0
  /\ first = EmptyMap
  /\ rules = {"away", "even"}

Remember(op, centsTarget, val) ==
  IF MapHas(first, <<op, Key(centsTarget)>>) THEN first
  ELSE MapSet(first, <<op, Key(centsTarget)>>, val)

CallJust(t) ==
  /\ calls < MaxCalls
  /\ LET r == nearestJust(_justCache, t)
     IN /\ _justCache' = r.cache
        /\ ret' = [op |-> "nearestJust", target |-> t, val |-> r.val]
        /\ first' = Remember("nearestJust", t, r.val)
  /\ calls' = calls + 1
  /\ UNCHANGED <<_pythCache, _w3Cache, rules>>

CallPyth(t) ==
  /\ calls < MaxCalls
  /\ LET r == nearestPythagorean(_pythCache, t)
     IN /\ _pythCache' = r.cache
        /\ ret' = [op |-> "nearestPythagorean", target |-> t, val |-> r.val]
        /\ first' = Remember("nearestPythagorean", t, r.val)
  /\ calls' = calls + 1
  /\ UNCHANGED <<_justCache, _w3Cache, rules>>

CallW3(t, positions) ==
  /\ calls < MaxCalls
  /\ LET r == nearestWerckmeister(_w3Cache, t, positions)
     IN /\ _w3Cache' = r.cache
        /\ ret' = [op |-> "nearestWerckmeister", target |-> t, positions |-> positions,
                   val |-> r.val]
        /\ first' = Remember("nearestWerckmeister", t, r.val)
  /\ calls' = calls + 1
  /\ UNCHANGED <<_justCache, _pythCache, rules>>

Next ==
  \/ \E t \in JustTargets : CallJust(t)
  \/ \E t \in PythTargets : CallPyth(t)
  \/ \E t \in W3Targets, positions \in PositionLists : CallW3(t, positions)

Spec == Init /\ [][Next]_vars

\* signedDelta as a pure function: the arguments are drawn first, then it is applied
InitDelta ==
  /\ _justCache = EmptyMap
  /\ _pythCache = EmptyMap
  /\ _w3Cache = EmptyMap
  /\ ret \in {[op |-> "args", ref |-> r, target |-> t] : r \in DeltaRefs, t \in DeltaTargets}
  /\ calls = 0
  /\ first = EmptyMap
  /\ rules = {"away", "even"}

EvalSignedDelta ==
  /\ ret.op = "args"
  /\ ret' = [op |-> "signedDelta", ref |-> ret.ref, target |-> ret.target,
             val |-> signedDelta(ret.ref, ret.target)]
  /\ UNCHANGED <<_justCache, _pythCache, _w3Cache, calls, first, rules>>

NextDelta == EvalSignedDelta

SpecDelta == InitDelta /\ [][NextDelta]_vars

\* equalTempNearest as a pure function of its argument
EvalEqual(t) ==
  /\ ret' = [op |-> "equalTempNearest", target |-> t, val |-> equalTempNearest(t)]
  /\ rules' = {rule \in rules : equalTempNearest(t).steps = RuleValue(rule, t)}
  /\ UNCHANGED <<_justCache, _pythCache, _w3Cache, calls, first>>

NextEqual == \E t \in EqTargets : EvalEqual(t)

SpecEqual == Init /\ [][NextEqual]_vars

\* a render of the Comparador with the given inputs: its rows are computed
\* afresh, through the shared caches
Render(a4, fund, targets, sys, realOct, distMode) ==
  /\ calls < MaxRenders
  /\ \E c \in {Comparador([just |-> _justCache, pyth |-> _pythCache, w3 |-> _w3Cache],
                            a4, fund, targets, sys, realOct, distMode)} :
        /\ ret' = [op |-> "Comparador", a4 |-> a4, fund |-> fund, targets |-> targets,
                   sys |-> sys, realOct |-> realOct, distMode |-> distMode,
                   fFund |-> fFund(fund, a4), rows |-> c.out]
        /\ _justCache' = c.caches.just
        /\ _pythCache' = c.caches.pyth
        /\ _w3Cache' = c.caches.w3
  /\ calls' = calls + 1
  /\ UNCHANGED <<first, rules>>

NextCmp ==
  \E a4 \in CmpA4, fund \in CmpFunds, targets \in CmpTargets, sys \in CmpSystems,
     realOct \in BOOLEAN, distMode \in {"previous", "first"} :
    Render(a4, fund, targets, sys, realOct, distMode)

SpecCmp == Init /\ [][NextCmp]_vars

\* App inputs: fundamentals (a note, a frequency with a decimal point or a
\* decimal comma, text that does not parse, the empty field) and partial counts
HarmInputs == {<<"C", "4">>, <<"A", "4">>, <<"2", "6", "1", ".", "6", "2", "5", "5", "6", "5">>,
               <<"4", "4", "0", ",", "0">>, <<"c", "4">>, <<"z", "z">>, << >>}

HarmCounts == -1..MaxCount

\* a render of App with the given inputs: the harmonics are computed afresh,
\* through the shared caches
Harmonics(input, a4, count) ==
  /\ calls < MaxRenders
  /\ \E h \in {harmonics([just |-> _justCache, pyth |-> _pythCache, w3 |-> _w3Cache],
                         baseFreq(input, a4), count, werckmeisterIIIPositions)} :
        /\ ret' = [op |-> "harmonics", input |-> input, a4 |-> a4, count |-> count,
                   baseFreq |-> baseFreq(input, a4), rows |-> h.rows]
        /\ _pythCache' = h.caches.pyth
        /\ _w3Cache' = h.caches.w3
  /\ calls' = calls + 1
  /\ UNCHANGED <<_justCache, first, rules>>

NextHarm == \E input \in HarmInputs, a4 \in CmpA4, count \in HarmCounts : Harmonics(input, a4, count)

SpecHarm == Init /\ [][NextHarm]_vars

\* parseNoteOrHz inputs: every letter with every accidental choice in every
\* octave, in upper and lower case, and strings that are no note names
NoteLetters == {"A", "B", "C", "D", "E", "F", "G"}

NoteStrings ==
  {<<l>> \o acc \o IntStr(o) :
     l \in NoteLetters \cup {"c", "g"}, acc \in {<< >>, <<"#">>, <<"b">>}, o \in -1..MaxOctave}

OtherStrings ==
  {<< >>, <<"z", "z">>, <<"H", "4">>, <<"C">>, <<"C", "#">>, <<"4", "C">>, <<"C", "4", "x">>,
   <<"C", "#", "#", "4">>, <<"C", "-">>, <<"4", "4", "0">>, <<"4", "4", "0", ",", "5">>, <<"0">>}

ParseInputs == NoteStrings \cup OtherStrings

\* parseNoteOrHz as a pure function: the arguments are drawn first, then it is applied
InitParse ==
  /\ _justCache = EmptyMap
  /\ _pythCache = EmptyMap
  /\ _w3Cache = EmptyMap
  /\ ret \in {[op |-> "args", input |-> s, a4 |-> a] : s \in ParseInputs, a \in CmpA4}
  /\ calls = 0
  /\ first = EmptyMap
  /\ rules = {"away", "even"}

EvalParse ==
  /\ ret.op = "args"
  /\ ret' = [op |-> "parseNoteOrHz", input |-> ret.input, a4 |-> ret.a4,
             val |-> parseNoteOrHz(ret.input, ret.a4)]
  /\ UNCHANGED <<_justCache, _pythCache, _w3Cache, calls, first, rules>>

NextParse == EvalParse

SpecParse == InitParse /\ [][NextParse]_vars

\* inputs of the folded distance: targets inside and outside [0, 1200), and
\* positions in [0, 1200) (a grid with its neighbours, the Werckmeister list)
FoldTargets == {Cents(50 * i) + o : i \in -FoldMax..FoldMax, o \in {-1, 0, 1}}

FoldPositions ==
  {Cents(50 * j) + o : j \in 0..23, o \in {0, 1}}
    \cup {werckmeisterIIIPositions[k] : k \in 1..Len(werckmeisterIIIPositions)}

\* the two circular measures as pure functions of a target and a position
InitFold ==
  /\ _justCache = EmptyMap
  /\ _pythCache = EmptyMap
  /\ _w3Cache = EmptyMap
  /\ ret \in {[op |-> "args", target |-> t, position |-> p] : t \in FoldTargets, p \in FoldPositions}
  /\ calls = 0
  /\ first = EmptyMap
  /\ rules = {"away", "even"}

EvalFold ==
  /\ ret.op = "args"
  /\ ret' = [op |-> "fold", target |-> ret.target, position |-> ret.position,
             err |-> w3Err(ret.position, ret.target),
             delta |-> signedDelta(ret.target, ret.position)]
  /\ UNCHANGED <<_justCache, _pythCache, _w3Cache, calls, first, rules>>

NextFold == EvalFold

SpecFold == InitFold /\ [][NextFold]_vars

------------------------------------------------------------------------------
(* The two loops, pass by pass *)
(* A call in progress is held in ret: the loop variables, the number of    *)
(* passes made (iters) and, for the Pythagorean search, the candidates     *)
(* seen with the semitone class of each.                                   *)

\* for (let b = -11; ...
pythLoopFirst == -11

\* a search that stops before b = 0
pythLoopCondShort(b) == b <= -1

\* ...; b <= 11; b++)
pythLoopCond(b) == b <= 11

\* an accumulation that takes a twelfth fifth
w3LoopCondLong(i) == i < 12

\* for (let i = 0; i < 11; i++)
w3LoopCond(i) == i < 11

\* const sizes: four tempered fifths, then eight pure ones
w3Sizes ==
  LET pureFifth == toCents(<<3, 2>>)
      pythComma == toCents(<<531441, 524288>>)
      quarterComma == pythComma \div 4
      temperedFifth == pureFifth - quarterComma
  IN <<temperedFifth, temperedFifth, temperedFifth, temperedFifth,
       pureFifth, pureFifth, pureFifth, pureFifth,
       pureFifth, pureFifth, pureFifth, pureFifth>>

\* targets of the calls followed pass by pass
LoopTargets == {0, 7019550, Cents(700), Cents(1195)}

\* no call is in progress
Idle == ret.op \in {"none", "pythDone", "w3Done"}

\* nearestPythagorean(t), the key is in the cache: return hit, no pass is made
PythHit(t) ==
  /\ Idle /\ calls < MaxCalls
  /\ MapHas(_pythCache, Key(t))
  /\ ret' = [op |-> "pythDone", target |-> t, hit |-> TRUE, iters |-> 0, seen |-> {},
             val |-> _pythCache[Key(t)]]
  /\ calls' = calls + 1
  /\ UNCHANGED <<_justCache, _pythCache, _w3Cache, first, rules>>

\* nearestPythagorean(t), cache miss: let best = {..., err: Infinity}; b = -11
PythStart(t) ==
  /\ Idle /\ calls < MaxCalls
  /\ ~MapHas(_pythCache, Key(t))
  /\ ret' = [op |-> "pythLoop", target |-> t, b |-> pythLoopFirst, iters |-> 0, seen |-> {},
             best |-> [b |-> 0, a |-> 0, cents |-> 0, ratio |-> <<1, 1>>, err |-> Infinity]]
  /\ UNCHANGED <<_justCache, _pythCache, _w3Cache, calls, first, rules>>

\* one pass of the loop over b
PythIter ==
  /\ ret.op = "pythLoop"
  /\ pythLoopCond(ret.b)
  /\ \E cand \in {pythCandidate(ret.target, ret.b)} :
       ret' = [ret EXCEPT !.b = ret.b + 1,
                          !.iters = ret.iters + 1,
                          !.seen = ret.seen \cup
                                     {<<ret.b, equalTempNearest(cand.cents).steps % 12>>},
                          !.best = IF cand.err < ret.best.err THEN cand ELSE ret.best]
  /\ UNCHANGED <<_justCache, _pythCache, _w3Cache, calls, first, rules>>

\* the loop has ended: build the fraction, store the result, return it
PythFinish ==
  /\ ret.op = "pythLoop"
  /\ ~pythLoopCond(ret.b)
  /\ \E res \in {[cents |-> ret.best.cents, ratio |-> ret.best.ratio,
                  fraction |-> pythFraction(ret.best)]} :
       /\ _pythCache' = MapSet(_pythCache, Key(ret.target), res)
       /\ ret' = [op |-> "pythDone", target |-> ret.target, hit |-> FALSE,
                  iters |-> ret.iters, seen |-> ret.seen, val |-> res]
  /\ calls' = calls + 1
  /\ UNCHANGED <<_justCache, _w3Cache, first, rules>>

\* werckmeisterIIIPositions(): const cents = [0]; let acc = 0; i = 0
W3BuildStart ==
  /\ Idle /\ calls < MaxCalls
  /\ ret' = [op |-> "w3Loop", i |-> 0, acc |-> 0, cents |-> <<0>>, iters |-> 0]
  /\ UNCHANGED <<_justCache, _pythCache, _w3Cache, calls, first, rules>>

\* one pass: acc += sizes[i]; let pos = acc % 1200; if (pos < 0) pos += 1200; cents.push(pos)
W3BuildIter ==
  /\ ret.op = "w3Loop"
  /\ w3LoopCond(ret.i)
  /\ \E acc2 \in {ret.acc + w3Sizes[ret.i + 1]} :
       \E pos0 \in {JsRem(acc2, Cents(1200))} :
         ret' = [ret EXCEPT !.i = ret.i + 1,
                            !.iters = ret.iters + 1,
                            !.acc = acc2,
                            !.cents = Append(ret.cents,
                                             IF pos0 < 0 THEN pos0 + Cents(1200) ELSE pos0)]
  /\ UNCHANGED <<_justCache, _pythCache, _w3Cache, calls, first, rules>>

\* the loop has ended: map into [0, 1200), sort, return
W3BuildFinish ==
  /\ ret.op = "w3Loop"
  /\ ~w3LoopCond(ret.i)
  /\ ret' = [op |-> "w3Done", iters |-> ret.iters,
             positions |-> SortSeq([k \in 1..Len(ret.cents) |->
                                      JsRem(ret.cents[k] + Cents(1200), Cents(1200))],
                                   LAMBDA a, b : a < b)]
  /\ calls' = calls + 1
  /\ UNCHANGED <<_justCache, _pythCache, _w3Cache, first, rules>>

NextLoop ==
  \/ \E t \in LoopTargets : PythHit(t)
  \/ \E t \in LoopTargets : PythStart(t)
  \/ PythIter
  \/ PythFinish
  \/ W3BuildStart
  \/ W3BuildIter
  \/ W3BuildFinish

SpecLoop == Init /\ [][NextLoop]_vars

\* a call runs to completion: a loop in progress takes its next pass
SpecLoopFair == Init /\ [][NextLoop]_vars /\ WF_vars(NextLoop)

------------------------------------------------------------------------------
(* nearestWerckmeister with more than one position list *)
(* positions is a parameter of the function; the cache key is the rounded  *)
(* target alone.                                                          *)

\* a second list of twelve positions of [0, 1200): the equal semitones
SemitonePositions == [k \in 1..12 |-> Cents(100 * (k - 1))]

\* the lists a caller of nearestWerckmeister(centsTarget, positions) may pass
W3Lists == {werckmeisterIIIPositions, SemitonePositions}

NextW3Lists == \E t \in W3Targets, positions \in W3Lists : CallW3(t, positions)

SpecW3Lists == Init /\ [][NextW3Lists]_vars

------------------------------------------------------------------------------
(* C1  signedDelta *)

\* C1: for every reference r and target t, signedDelta(r, t) = d with
\* -600 <= d < 600 and d congruent to t - r modulo 1200; a difference
\* congruent to 600 gives -600, never +600; signedDelta(1190, 10) = 20.
C1_SignedDeltaRange ==
  ret.op = "signedDelta" =>
    /\ -Cents(600) <= ret.val /\ ret.val < Cents(600)
    /\ (ret.val - (ret.target - ret.ref)) % Cents(1200) = 0
    /\ ((ret.target - ret.ref) - Cents(600)) % Cents(1200) = 0 => ret.val = -Cents(600)
    /\ (ret.ref = Cents(1190) /\ ret.target = Cents(10)) => ret.val = Cents(20)

\* a raw difference of exactly -1800 (congruent to 600, below -600) has been mapped to -600
C1_Witness ==
  /\ ret.op = "signedDelta"
  /\ ret.target - ret.ref = -Cents(1800)
  /\ ret.val = -Cents(600)

------------------------------------------------------------------------------
(* C7  equalTempNearest *)

\* C7 as stated: one of the two documented rules (halves away from zero, or
\* halves to even) agrees with every call made so far, negative targets included.
C7_OneDocumentedRule == rules # {}

\* C7 amended: steps is an integer n, cents = 100*n is the multiple of 100
\* nearest to the target, and a target exactly halfway between two multiples
\* goes to the upper one (toward +infinity), for every target, negative ones
\* included; equalTempNearest(386.3).cents = 400.
C7_RoundHalfUp ==
  ret.op = "equalTempNearest" =>
    /\ ret.val.steps \in Int
    /\ ret.val.cents = Cents(100) * ret.val.steps
    /\ ret.val.cents - ret.target <= Cents(50)
    /\ ret.target - ret.val.cents < Cents(50)
    /\ ret.target = 3863000 => ret.val.cents = Cents(400)

\* a negative halfway target, -150, has been rounded up to -100
C7_Witness ==
  /\ ret.op = "equalTempNearest"
  /\ ret.target = -Cents(150)
  /\ ret.val.cents = -Cents(100)

------------------------------------------------------------------------------
(* C2  nearestWerckmeister: the folded distance *)

\* |target - position|, replaced by 1200 minus it when it exceeds 600
Folded(target, position) ==
  IF Abs(target - position) > Cents(600) THEN Cents(1200) - Abs(target - position)
  ELSE Abs(target - position)

\* C2: nearestWerckmeister(target, positions) returns the position that
\* minimizes the folded distance over all the positions of the list.
C2_W3MinimalOverAll ==
  ret.op = "nearestWerckmeister" =>
    /\ \E i \in 1..Len(ret.positions) : ret.positions[i] = ret.val.cents
    /\ \A i \in 1..Len(ret.positions) :
         Folded(ret.target, ret.val.cents) <= Folded(ret.target, ret.positions[i])

------------------------------------------------------------------------------
(* C4, C5, C6  the memoization caches *)

\* C4: the value stored for a cache key depends only on the key: every target
\* that rounds to a stored key computes the value that is stored for it,
\* whichever target of that key was called first.
C4_ValueDependsOnKeyOnly ==
  /\ \A t \in JustTargets :
       MapHas(_justCache, Key(t)) => _justCache[Key(t)] = justCompute(t)
  /\ \A t \in PythTargets :
       MapHas(_pythCache, Key(t)) => _pythCache[Key(t)] = pythCompute(t)
  /\ \A t \in W3Targets, positions \in PositionLists :
       MapHas(_w3Cache, Key(t)) => _w3Cache[Key(t)] = w3Compute(t, positions)

\* C5: a call whose target rounds to a key used by an earlier call of the same
\* matcher returns exactly what the first call of that key returned, and
\* leaves the three caches as they were.
C5_CacheHitIdentical ==
  [][calls' = calls + 1 =>
       (MapHas(first, <<ret'.op, Key(ret'.target)>>) =>
          /\ ret'.val = first[<<ret'.op, Key(ret'.target)>>]
          /\ UNCHANGED <<_justCache, _pythCache, _w3Cache>>)]_vars

\* a second call, with another target of the same key, has returned the first
\* call's value (10/9, which only the earlier target 193.1566 computes)
C5_Witness ==
  /\ calls = 2
  /\ ret.op = "nearestJust"
  /\ ret.target = 1931570
  /\ ret.val.frac = <<10, 9>>
  /\ DOMAIN _justCache = {Key(1931570)}

CacheKeys == 
  ({"nearestJust"} \X DOMAIN _justCache) \cup ({"nearestPythagorean"} \X DOMAIN _pythCache)
    \cup ({"nearestWerckmeister"} \X DOMAIN _w3Cache)

CacheAt(id) ==
  IF id[1] = "nearestJust" THEN _justCache[id[2]]
  ELSE IF id[1] = "nearestPythagorean" THEN _pythCache[id[2]]
  ELSE _w3Cache[id[2]]

\* C6: the caches are append-only: a step keeps every key with its value, adds
\* at most one key, and every key maps to the value first stored for it.
C6_AppendOnly ==
  [][/\ \A id \in CacheKeys : id \in CacheKeys' /\ CacheAt(id)' = CacheAt(id)
     /\ Cardinality(CacheKeys') <= Cardinality(CacheKeys) + 1
     /\ \A id \in CacheKeys' : CacheAt(id)' = first'[id]]_vars

\* two calls on one key of the Pythagorean cache with targets that compute
\* different values: the key still maps to the value stored first
C6_Witness ==
  /\ calls = 2
  /\ ret.op = "nearestPythagorean"
  /\ ret.target = 6902251
  /\ DOMAIN _pythCache = {Key(6902251)}
  /\ _pythCache[Key(6902251)] # pythCompute(6902251)

------------------------------------------------------------------------------
(* C8  nearestJust *)

JustErr(t, i) == Abs(signedDelta(t, toCents(JUST_SET[i].frac)))

\* C8: nearestJust(target) returns the entry of the 13-entry table that
\* minimizes |signedDelta(target, entryCents)|, the earliest such entry on a
\* tie, with its integer pair, label and cents; for 386 the label contains 5/4.
C8_JustMinimalFirst ==
  ret.op = "nearestJust" =>
    /\ Len(JUST_SET) = 13
    /\ \E i \in 1..Len(JUST_SET) :
         /\ ret.val.name = JUST_SET[i].name
         /\ ret.val.frac = JUST_SET[i].frac
         /\ ret.val.cents = toCents(JUST_SET[i].frac)
         /\ \A j \in 1..Len(JUST_SET) : JustErr(ret.target, i) <= JustErr(ret.target, j)
         /\ \A j \in 1..(i - 1) : JustErr(ret.target, i) < JustErr(ret.target, j)
    /\ ret.target = Cents(386) => Contains(ret.val.name, <<"5", "/", "4">>)

------------------------------------------------------------------------------
(* C9, C10  nearestPythagorean *)

\* r, a rational in lowest terms, is 3^b / 2^a for some a and lies in [1,2)
\* (which makes a the floor of log2(3^b)); 3^|b| and 2^|a| are coprime
IsLatticeRatio(r, b) ==
  /\ IF b >= 0 THEN \E a \in 0..18 : r = <<IPow(3, b), IPow(2, a)>>
     ELSE \E a \in 1..18 : r = <<IPow(2, a), IPow(3, -b)>>
  /\ r[2] <= r[1] /\ r[1] < 2 * r[2]

\* C9: nearestPythagorean(target) returns the cents and ratio of a lattice
\* point 3^b / 2^a, b in -11..11, a = floor(log2(3^b)), with ratio in [1,2)
\* and |signedDelta(target, cents)| <= that of every other candidate b.
C9_PythMinimal ==
  ret.op = "nearestPythagorean" =>
    \E b \in -11..11 :
      /\ IsLatticeRatio(ret.val.ratio, b)
      /\ ret.val.cents = toCents(ret.val.ratio)
      /\ \A b2 \in -11..11 :
           Abs(signedDelta(ret.target, ret.val.cents))
             <= Abs(signedDelta(ret.target, PythPoints[b2].cents))

\* C10: the fraction string is "n/d" with n, d positive and coprime, n/d equal
\* to the returned lattice ratio 3^b / 2^a (two fractions in lowest terms are
\* equal as pairs); for 701.955 it is exactly "3/2".
C10_FractionExact ==
  ret.op = "nearestPythagorean" =>
    LET parts == split(ret.val.fraction, "/")
        n == parseInt(parts[1])
        d == parseInt(parts[2])
    IN /\ Len(parts) = 2
       /\ ~n.nan /\ ~d.nan
       /\ ret.val.fraction = NumStr(n.v) \o <<"/">> \o NumStr(d.v)
       /\ n.v > 0 /\ d.v > 0
       /\ Gcd(n.v, d.v) = 1
       /\ <<n.v, d.v>> = ret.val.ratio
       /\ \E b \in -11..11 : IsLatticeRatio(<<n.v, d.v>>, b)
       /\ ret.target = 7019550 => ret.val.fraction = <<"3", "/", "2">>

\* the lattice point of b = -11, a = -18 (both negative) has been returned
C10_Witness ==
  /\ ret.op = "nearestPythagorean"
  /\ ret.val.ratio = <<262144, 177147>>
  /\ ret.val.fraction = NumStr(262144) \o <<"/">> \o NumStr(177147)

------------------------------------------------------------------------------
(* C3  Comparador: C4, [E4, D4], Just, previous *)

IsC3Case ==
  /\ ret.op = "Comparador"
  /\ ret.a4 = 440000000
  /\ ret.fund = <<"C", "4">>
  /\ ret.targets = <<"E", "4", ",", "D", "4">>
  /\ ret.sys = "just"
  /\ ret.distMode = "previous"

\* the ratio n/d of a fraction string "n/d", reduced into [1,2)
ReducedOf(fracStr) ==
  LET parts == split(fracStr, "/")
      r == <<parseInt(parts[1]).v, parseInt(parts[2]).v>>
  IN RatDiv(r, Pow(2, FloorLog2(r)))

\* |r - p/q| < 0.02 for rationals r and p/q
Within002(r, pq) == 50 * Abs(r[1] * pq[2] - pq[1] * r[2]) < r[2] * pq[2]

\* C3 as stated: the row of E4 has no distance and the row of D4 has a
\* distance to the previous row whose octave-reduced ratio is within 0.02 of 10/9.
C3_DistanceTenNinths ==
  IsC3Case =>
    /\ Len(ret.rows) = 2
    /\ ret.rows[1].target = <<"E", "4">> /\ ret.rows[2].target = <<"D", "4">>
    /\ ret.rows[1].distFrac = None /\ ret.rows[1].distCents = None
    /\ ret.rows[2].distFrac # None
    /\ Within002(ReducedOf(ret.rows[2].distFrac[1]), <<10, 9>>)

\* C3 amended: the row of E4 has no distance and the row of D4 has a distance
\* to the previous row whose octave-reduced ratio is within 0.02 of 9/5 (D4's
\* 9/8 over E4's 5/4 is 9/10, 1017.6 cents once reduced into [1,2)).
C3_DistanceNineFifths ==
  IsC3Case =>
    /\ Len(ret.rows) = 2
    /\ ret.rows[1].target = <<"E", "4">> /\ ret.rows[2].target = <<"D", "4">>
    /\ ret.rows[1].distFrac = None /\ ret.rows[1].distCents = None
    /\ ret.rows[2].distFrac # None /\ ret.rows[2].distCents # None
    /\ Within002(ReducedOf(ret.rows[2].distFrac[1]), <<9, 5>>)
    /\ ret.rows[2].distCents[1] = toCents(<<9, 5>>)

\* the comparison has been rendered and the row of D4 shows the quotient 9/10
C3_Witness ==
  /\ IsC3Case
  /\ Len(ret.rows) = 2
  /\ ret.rows[2].sysFrac = <<"9", "/", "8">>
  /\ ret.rows[2].distFrac = Some(<<"9", "/", "1", "0">>)

------------------------------------------------------------------------------
(* C11  werckmeisterIIIPositions *)

\* k successive fifths from 0, the first four tempered (the pure fifth less a
\* quarter of the Pythagorean comma) and the rest pure, modulo 1200
FifthsFromZero(k) ==
  LET pure == toCents(<<3, 2>>)
      tempered == pure - toCents(<<531441, 524288>>) \div 4
      nTempered == IF k < 4 THEN k ELSE 4
  IN (nTempered * tempered + (k - nTempered) * pure) % Cents(1200)

\* C11: werckmeisterIIIPositions() returns exactly 12 values in ascending
\* order, the first 0 and all in [0, 1200): the values reached by 0..11
\* successive fifths from 0 modulo 1200, the first four fifths tempered and
\* the others pure.
C11_TwelveSortedPositions ==
  ret.op = "nearestWerckmeister" =>
    /\ Len(ret.positions) = 12
    /\ ret.positions[1] = 0
    /\ \A i \in 1..Len(ret.positions) : 0 <= ret.positions[i] /\ ret.positions[i] < Cents(1200)
    /\ \A i \in 1..(Len(ret.positions) - 1) : ret.positions[i] < ret.positions[i + 1]
    /\ {ret.positions[i] : i \in 1..Len(ret.positions)} = {FifthsFromZero(k) : k \in 0..11}

\* a call has been handed the list, whose second value 90.225 is the seventh
\* fifth of the chain (four tempered and three pure fifths, less four octaves)
C11_Witness ==
  /\ ret.op = "nearestWerckmeister"
  /\ ret.positions = werckmeisterIIIPositions
  /\ ret.positions[2] = FifthsFromZero(7)
  /\ ret.positions[2] = 902250

------------------------------------------------------------------------------
(* C12  the harmonic series *)

\* the pair <<rn, rd>> a fraction string "rn/rd" denotes
FracOf(str) == <<parseInt(split(str, "/")[1]).v, parseInt(split(str, "/")[2]).v>>

\* C12: for a partial count N >= 1 the generator produces exactly N rows, for
\* n = 1..N in ascending order; row n has the real frequency fundamental * n
\* and the fraction rn/rd = n / 2^floor(log2(n)) with rn and rd coprime and
\* 1 <= rn/rd < 2 (row 3 is "3/2", every power of two is "1/1"); a count
\* below 1 yields one row.
C12_HarmonicRows ==
  ret.op = "harmonics" =>
    /\ Len(ret.rows) = (IF ret.count >= 1 THEN ret.count ELSE 1)
    /\ \A n \in 1..Len(ret.rows) :
         LET row == ret.rows[n]
             f == FracOf(row.just.ratio)
         IN /\ row.n = n
            /\ row.harmonicHz = ret.baseFreq + toCents(<<n, 1>>)
            /\ Len(split(row.just.ratio, "/")) = 2
            /\ f[1] >= 1 /\ f[2] >= 1 /\ Gcd(f[1], f[2]) = 1
            /\ f[2] <= f[1] /\ f[1] < 2 * f[2]
            /\ \E k \in 0..n : IPow(2, k) <= n /\ n < 2 * IPow(2, k) /\ f[1] * IPow(2, k) = n * f[2]
            /\ n = 3 => row.just.ratio = <<"3", "/", "2">>
            /\ n \in {1, 2, 4, 8, 16} => row.just.ratio = <<"1", "/", "1">>

\* the series of 16 partials on 261.625565 Hz: row 3 is 3/2 at 701.955 cents,
\* row 12 is 3/2 again and row 16 is 1/1
C12_Witness ==
  /\ ret.op = "harmonics"
  /\ ret.input = <<"2", "6", "1", ".", "6", "2", "5", "5", "6", "5">>
  /\ ret.count = 16
  /\ Len(ret.rows) = 16
  /\ ret.rows[3].just.ratio = <<"3", "/", "2">>
  /\ ret.rows[3].just.cents = 7019550
  /\ ret.rows[12].just.ratio = <<"3", "/", "2">>
  /\ ret.rows[16].just.ratio = <<"1", "/", "1">>

\* a count below 1 has produced the single row of the fundamental
C12_WitnessOneRow ==
  /\ ret.op = "harmonics"
  /\ ret.count = 0
  /\ Len(ret.rows) = 1

------------------------------------------------------------------------------
(* C13  reduced results *)

\* the ratio of a projection result lies in [1, 2)
RatioReduced(op, val) ==
  IF op = "nearestJust" THEN val.frac[2] <= val.frac[1] /\ val.frac[1] < 2 * val.frac[2]
  ELSE IF op = "nearestPythagorean" THEN val.ratio[2] <= val.ratio[1] /\ val.ratio[1] < 2 * val.ratio[2]
  ELSE 1000000 <= val.ratio /\ val.ratio < 2000000

\* C13: for every target in [0, 1200) each of the four projections returns a
\* reduced result: cents in [0, 1200) and ratio in [1, 2).
C13_ReducedResults ==
  (/\ ret.op \in {"equalTempNearest", "nearestJust", "nearestPythagorean", "nearestWerckmeister"}
   /\ 0 <= ret.target /\ ret.target < Cents(1200))
    => /\ 0 <= ret.val.cents /\ ret.val.cents < Cents(1200)
       /\ RatioReduced(ret.op, ret.val)

------------------------------------------------------------------------------
(* C14  targets that fail to parse *)

\* the targets of a render that parse, in their input order
ParsableTargets ==
  SelectSeq(splitTargets(ret.targets, 1, << >>),
            LAMBDA t : parseNoteOrHz(t, ret.a4).freq # None)

\* the items of a list joined by commas
RECURSIVE JoinComma(_)
JoinComma(list) ==
  IF Len(list) = 0 THEN << >>
  ELSE IF Len(list) = 1 THEN list[1]
  ELSE list[1] \o <<",">> \o JoinComma(Tail(list))

\* C14: a target that fails to parse produces no row and does not abort the
\* batch: the rows are exactly the targets that parse, in their input order,
\* and they are the rows the same inputs give without the targets that fail
\* (the 'previous' and 'first' references are left as they were).
C14_UnparsableSkipped ==
  ret.op = "Comparador" =>
    /\ Len(ret.rows) = Len(ParsableTargets)
    /\ \A i \in 1..Len(ret.rows) :
         ret.rows[i].target = parseNoteOrHz(ParsableTargets[i], ret.a4).label
    /\ ret.rows = Comparador([just |-> _justCache, pyth |-> _pythCache, w3 |-> _w3Cache],
                             ret.a4, ret.fund, JoinComma(ParsableTargets), ret.sys,
                             ret.realOct, ret.distMode).out

\* "G4, zz, C5,440" in 'previous' mode: three rows, and the row of C5, which
\* follows the skipped "zz", has its distance to the row of G4 (a fourth)
C14_Witness ==
  /\ ret.op = "Comparador"
  /\ ret.targets = <<"G", "4", ",", " ", "z", "z", ",", " ", "C", "5", ",", "4", "4", "0">>
  /\ ret.fund = <<"C", "4">>
  /\ ret.sys = "just"
  /\ ret.distMode = "previous"
  /\ Len(splitTargets(ret.targets, 1, << >>)) = 4
  /\ Len(ret.rows) = 3
  /\ ret.rows[2].target = <<"C", "5">>
  /\ ret.rows[2].distFrac = Some(<<"2", "/", "3">>)
  /\ ret.rows[2].distCents = Some(toCents(<<4, 3>>))

------------------------------------------------------------------------------
(* C15  the reference of the distance *)

\* the row a row's distance refers to: the one before it, or the first one
RefRow(i) == IF ret.distMode = "previous" THEN i - 1 ELSE 1

\* C15: the first row has no distance (both fields absent); under 'previous'
\* every later row's distance is the octave-reduced interval from the
\* projection of the row produced immediately before it, under 'first' from
\* the projection of the first row produced.
C15_DistanceReference ==
  ret.op = "Comparador" =>
    \A i \in 1..Len(ret.rows) :
      IF i = 1 THEN ret.rows[1].distFrac = None /\ ret.rows[1].distCents = None
      ELSE /\ ret.rows[i].distFrac # None
           /\ ret.rows[i].distCents =
                Some((ret.rows[i].sysCents - ret.rows[RefRow(i)].sysCents) % Cents(1200))

\* three rows under 'previous' whose third distance (A4 after C5: 5/3) is not
\* the one to the first row (A4 after G4: 10/9)
C15_Witness ==
  /\ ret.op = "Comparador"
  /\ ret.targets = <<"G", "4", ",", " ", "z", "z", ",", " ", "C", "5", ",", "4", "4", "0">>
  /\ ret.fund = <<"C", "4">>
  /\ ret.sys = "just"
  /\ ret.distMode = "previous"
  /\ Len(ret.rows) = 3
  /\ ret.rows[1].distFrac = None
  /\ ret.rows[3].distFrac = Some(<<"5", "/", "3">>)
  /\ ret.rows[3].distCents = Some(toCents(<<5, 3>>))

\* the same rows under 'first': the third distance is the one to the first row
C15_WitnessFirst ==
  /\ ret.op = "Comparador"
  /\ ret.targets = <<"G", "4", ",", " ", "z", "z", ",", " ", "C", "5", ",", "4", "4", "0">>
  /\ ret.fund = <<"C", "4">>
  /\ ret.sys = "just"
  /\ ret.distMode = "first"
  /\ Len(ret.rows) = 3
  /\ ret.rows[3].distFrac = Some(<<"1", "0", "/", "9">>)

------------------------------------------------------------------------------
(* C16  parseNoteOrHz on note names *)

\* a letter A-G (in either case: the parser upper-cases it), an optional '#'
\* or 'b', an integer octave
NoteForm(s) ==
  /\ Len(s) >= 2
  /\ toUpperCase(s[1]) \in NoteLetters
  /\ LET rest == IF s[2] \in {"#", "b"} THEN SubSeq(s, 3, Len(s)) ELSE Tail(s)
         digits == IF Len(rest) > 0 /\ rest[1] = "-" THEN Tail(rest) ELSE rest
     IN Len(digits) > 0 /\ \A k \in 1..Len(digits) : IsDigit(digits[k])

\* the semitone of a letter above C, and of a note name with its accidental
LetterIndex(l) ==
  IF l = "C" THEN 0 ELSE IF l = "D" THEN 2 ELSE IF l = "E" THEN 4 ELSE IF l = "F" THEN 5
  ELSE IF l = "G" THEN 7 ELSE IF l = "A" THEN 9 ELSE 11

PitchIndex(s) ==
  LetterIndex(toUpperCase(s[1])) + (IF s[2] = "#" THEN 1 ELSE IF s[2] = "b" THEN -1 ELSE 0)

OctaveOf(s) ==
  LET rest == IF s[2] \in {"#", "b"} THEN SubSeq(s, 3, Len(s)) ELSE Tail(s)
  IN IF rest[1] = "-" THEN -DigitsValue(Tail(rest)) ELSE DigitsValue(rest)

\* C16: every string letter, optional '#' or 'b', integer octave (all seven
\* letters with all three accidental choices) parses to the frequency
\* a4 * 2^((midi - 69)/12) with midi = (octave + 1)*12 + pitch index; every
\* other string that is no number yields the no-result value.
C16_EveryNoteNameParses ==
  ret.op = "parseNoteOrHz" =>
    IF NoteForm(ret.input)
    THEN /\ ret.val.freq # None
         /\ ret.val.midi = Some((OctaveOf(ret.input) + 1) * 12 + PitchIndex(ret.input))
         /\ ret.val.freq = Some(hzLog(ret.a4) + (ret.val.midi[1] - 69) * Cents(100))
    ELSE Number(replaceComma(trim(ret.input))).nan => ret.val.freq = None

------------------------------------------------------------------------------
(* C17  the fallback of a fundamental that fails to parse *)

\* C17: whenever a fundamental fails to parse, the harmonic generator and the
\* comparator substitute the same fallback, the middle C of 261.625565 Hz;
\* a comparator target that fails to parse has no row.
C17_MiddleCFallback ==
  /\ (ret.op = "harmonics" /\ parseNoteOrHz(ret.input, ret.a4).freq = None)
       => ret.baseFreq = Log261_625565
  /\ (ret.op = "Comparador" /\ parseNoteOrHz(ret.fund, ret.a4).freq = None)
       => ret.fFund = Log261_625565
  /\ ret.op = "Comparador" => Len(ret.rows) = Len(ParsableTargets)

------------------------------------------------------------------------------
(* C18  signedDelta: antisymmetry *)

\* C18: signedDelta(a, b) = -signedDelta(b, a) whenever b - a is not
\* congruent to 600 modulo 1200; when it is, signedDelta(a, b) and
\* signedDelta(b, a) are both -600.
C18_Antisymmetric ==
  ret.op = "signedDelta" =>
    IF (ret.target - ret.ref - Cents(600)) % Cents(1200) = 0
    THEN ret.val = -Cents(600) /\ signedDelta(ret.target, ret.ref) = -Cents(600)
    ELSE ret.val = -signedDelta(ret.target, ret.ref)

\* the half turn: signedDelta(0, 600) and signedDelta(600, 0) are both -600
C18_Witness ==
  /\ ret.op = "signedDelta"
  /\ ret.ref = 0
  /\ ret.target = Cents(600)
  /\ ret.val = -Cents(600)
  /\ signedDelta(Cents(600), 0) = -Cents(600)

\* across the wrap: signedDelta(1190, 10) = 20 and signedDelta(10, 1190) = -20
C18_WitnessWrap ==
  /\ ret.op = "signedDelta"
  /\ ret.ref = Cents(1190)
  /\ ret.target = Cents(10)
  /\ ret.val = Cents(20)
  /\ signedDelta(Cents(10), Cents(1190)) = -Cents(20)

------------------------------------------------------------------------------
(* C19  the distance fraction *)

\* the quotient (a1/a2) / (b1/b2) by cross-multiplication, in lowest terms
Quotient(a, b) ==
  <<(a[1] * b[2]) \div Gcd(a[1] * b[2], a[2] * b[1]),
    (a[2] * b[1]) \div Gcd(a[1] * b[2], a[2] * b[1])>>

\* C19: when a reference exists and both projections have exact integer
\* fractions (Just, Pythagorean) the distance fraction is the quotient
\* (current n/d) / (reference n/d), cross-multiplied and reduced to lowest
\* terms; when they have none (Equal, Werckmeister III) the distance is
\* expressed through its cents value only.
C19_DistanceFraction ==
  ret.op = "Comparador" =>
    \A i \in 2..Len(ret.rows) :
      LET row == ret.rows[i]
          ref == ret.rows[RefRow(i)]
      IN /\ row.distFrac # None /\ row.distCents # None
         /\ IF ret.sys \in {"just", "pyth"}
            THEN /\ Len(split(row.distFrac[1], "/")) = 2
                 /\ FracOf(row.distFrac[1]) = Quotient(FracOf(row.sysFrac), FracOf(ref.sysFrac))
                 /\ Gcd(FracOf(row.distFrac[1])[1], FracOf(row.distFrac[1])[2]) = 1
            ELSE row.distFrac[1] = <<"2", "^", "(", " ">> \o toFixed1(row.distCents[1])
                                     \o <<"/", "1", "2", "0", "0", " ", ")">>

\* Pythagorean rows of E4 and D4 over C4: 9/8 after 81/64 is 72/81 = 8/9
C19_Witness ==
  /\ ret.op = "Comparador"
  /\ ret.sys = "pyth"
  /\ ret.fund = <<"C", "4">>
  /\ Len(ret.rows) = 2
  /\ ret.rows[1].sysFrac = <<"8", "1", "/", "6", "4">>
  /\ ret.rows[2].sysFrac = <<"9", "/", "8">>
  /\ ret.rows[2].distFrac = Some(<<"8", "/", "9">>)

\* equal-tempered rows: the distance is written through its cents, 2^( 1000.0/1200 )
C19_WitnessCents ==
  /\ ret.op = "Comparador"
  /\ ret.sys = "equal"
  /\ ret.fund = <<"C", "4">>
  /\ Len(ret.rows) = 2
  /\ ret.rows[2].distCents = Some(Cents(1000))
  /\ ret.rows[2].distFrac = Some(<<"2", "^", "(", " ", "1", "0", "0", "0", ".", "0", "/", "1", "2", "0", "0", " ", ")">>)

------------------------------------------------------------------------------
(* C20  octave-reduced distances *)

\* C20: every distance of the comparator is octave-reduced: its cents lie in
\* [0, 1200) and its fraction string, when exact, denotes a ratio in [1, 2),
\* the same ratio as the distance cents of that row.
C20_DistanceReduced ==
  ret.op = "Comparador" =>
    \A i \in 2..Len(ret.rows) :
      LET row == ret.rows[i]
      IN /\ row.distCents # None
         /\ 0 <= row.distCents[1] /\ row.distCents[1] < Cents(1200)
         /\ ret.sys \in {"just", "pyth"} =>
              /\ FracOf(row.distFrac[1])[2] <= FracOf(row.distFrac[1])[1]
              /\ FracOf(row.distFrac[1])[1] < 2 * FracOf(row.distFrac[1])[2]
              /\ toCents(FracOf(row.distFrac[1])) = row.distCents[1]

------------------------------------------------------------------------------
(* C21  the folded distance and signedDelta *)

\* C21: for every target and position in [0, 1200) the folded distance of
\* the Werckmeister matcher equals |signedDelta(target, position)|; outside
\* [0, 1200) the two differ (target 1300, position 0: -100 against 100).
C21_FoldEqualsAbsDelta ==
  ret.op = "fold" =>
    /\ (/\ 0 <= ret.target /\ ret.target < Cents(1200)
        /\ 0 <= ret.position /\ ret.position < Cents(1200))
         => ret.err = Abs(ret.delta)
    /\ (ret.target = Cents(1300) /\ ret.position = 0)
         => ret.err = -Cents(100) /\ Abs(ret.delta) = Cents(100)

\* a target and a position of the octave more than 600 apart: the fold has
\* been applied (1150 against 0 is 50) and agrees with signedDelta
C21_Witness ==
  /\ ret.op = "fold"
  /\ ret.target = Cents(1150)
  /\ ret.position = 0
  /\ ret.err = Cents(50)
  /\ ret.delta = Cents(50)

\* a target above the octave for which the two measures differ
C21_WitnessOutside ==
  /\ ret.op = "fold"
  /\ ret.target = Cents(1300)
  /\ ret.position = 0
  /\ ret.err # Abs(ret.delta)

------------------------------------------------------------------------------
(* C22  the exponent range covers the twelve pitch classes *)

\* C22: the candidates b = -11..11 of a search cover all 12 pitch classes:
\* for each semitone class k in 0..11 some candidate b has lattice cents
\* whose nearest multiple of 100 is 100*k modulo 1200.
C22_TwelveClassesCovered ==
  (ret.op = "pythDone" /\ ~ret.hit) =>
    /\ \A p \in ret.seen : p[1] \in -11..11
    /\ \A k \in 0..11 : \E p \in ret.seen : p[2] = k

\* a search of 23 passes has ended: class 6 was seen at b = 6 (729/512, 611.7
\* cents) and at b = -6, class 0 at b = 0 only
C22_Witness ==
  /\ ret.op = "pythDone"
  /\ ~ret.hit
  /\ Cardinality(ret.seen) = 23
  /\ <<6, 6>> \in ret.seen /\ <<-6, 6>> \in ret.seen
  /\ {p \in ret.seen : p[2] = 0} = {<<0, 0>>}

------------------------------------------------------------------------------
(* C23  the loops are bounded *)

\* a loop is in progress
InLoop == ret.op \in {"pythLoop", "w3Loop"}

\* the passes made, at every moment of a call
LoopCounts ==
  /\ ret.op = "pythLoop" => ret.iters = ret.b + 11 /\ ret.iters <= 23
  /\ (ret.op = "pythDone" /\ ~ret.hit) =>
       ret.iters = 23 /\ ret.val = pythCompute(ret.target)
  /\ ret.op = "w3Loop" => ret.iters = ret.i /\ ret.iters <= 11
  /\ ret.op = "w3Done" =>
       ret.iters = 11 /\ ret.positions = werckmeisterIIIPositions

\* C23: every computation ends after a bounded number of passes: an uncached
\* nearestPythagorean makes exactly 23 passes of its search loop (b = -11..11)
\* and never more, werckmeisterIIIPositions makes exactly 11 passes of its
\* accumulation loop, and a loop in progress always comes to its end.
C23_LoopsBounded == [](LoopCounts) /\ (InLoop ~> ~InLoop)

\* an uncached search has ended after its 23 passes
C23_Witness == ret.op = "pythDone" /\ ~ret.hit /\ ret.iters = 23 /\ calls = 1

\* the builder has ended after its 11 passes, with twelve positions
C23_WitnessBuilder == ret.op = "w3Done" /\ ret.iters = 11 /\ Len(ret.positions) = 12

------------------------------------------------------------------------------
(* C24  the position returned belongs to the list passed *)

\* C24: after any sequence of nearestWerckmeister calls, possibly with
\* different position lists, the cents returned by a call is an element of the
\* position list passed to that same call.
C24_ReturnedFromOwnList ==
  ret.op = "nearestWerckmeister" =>
    \E k \in 1..Len(ret.positions) : ret.positions[k] = ret.val.cents

------------------------------------------------------------------------------
(* C25  the separators of the targets text *)

\* the tokens of a text cut at every run of commas and white space
RECURSIVE splitCommaSpace(_, _, _)
splitCommaSpace(text, i, cur) ==
  LET flush == IF Len(cur) = 0 THEN << >> ELSE <<cur>>
  IN IF i > Len(text) THEN flush
     ELSE IF text[i] = "," \/ IsSpace(text[i]) THEN flush \o splitCommaSpace(text, i + 1, << >>)
     ELSE splitCommaSpace(text, i + 1, Append(cur, text[i]))

\* the targets of a render under that cut that parse, in their input order
CommaSpaceTargets ==
  SelectSeq(splitCommaSpace(ret.targets, 1, << >>),
            LAMBDA t : parseNoteOrHz(t, ret.a4).freq # None)

\* C25: the targets text is cut into one target per token wherever tokens are
\* separated by commas or by white space, and nowhere else: the rows of a
\* render are the tokens of that cut that parse, in their input order, so that
\* "D4 E4" and "D4, E4" both give the rows of D4 and E4.
C25_SplitOnCommaOrSpace ==
  ret.op = "Comparador" =>
    /\ Len(ret.rows) = Len(CommaSpaceTargets)
    /\ \A i \in 1..Len(ret.rows) :
         ret.rows[i].target = parseNoteOrHz(CommaSpaceTargets[i], ret.a4).label

====
